---- MODULE Spec2Model ----
(***************************************************************************)
(* google-ads-mcp: the search tool (query construction, streamed           *)
(* execution), the resource catalog lookup and the output normalisation.   *)
(*                                                                         *)
(* Python strings are sequences of one-character strings, so that          *)
(* joining, formatting and substring search are computed and not assumed.  *)
(* Python values of more than one type are records tagged by "t".          *)
(***************************************************************************)
EXTENDS Integers, Sequences, FiniteSets, TLC

VARIABLES
    pc,             \* where the running tool call stands
    request,        \* the arguments of search
    query,          \* search: the GAQL text built from the request
    submitted,      \* search: the search_stream calls made, in order
    streamed,       \* search: the batches the transport has yielded, in order
    final_output,   \* search: the rows collected so far
    failure,        \* search: the exception the transport raised, "None" if none
    catalog_file,   \* the state of gaql_resources.json on disk
    resource,       \* the argument of get_resource_fields
    resources,      \* what _load_resources returned
    value,          \* the argument of format_output_value
    row,            \* format_output_row: the decoded response row
    attributes,     \* format_output_row: the paths of the field mask
    logged,         \* whether the load logged a failure
    result,         \* what the call returned to its caller
    raised          \* the exception the call let through, "None" if none

searchVars == <<request, query, submitted, streamed, final_output, failure>>
catalogVars == <<catalog_file, resource, resources, logged>>
valueVars == <<value, row, attributes>>
vars == <<pc, searchVars, catalogVars, valueVars, result, raised>>

(***************************************************************************)
(* Bounds of the model.                                                    *)
(***************************************************************************)
MaxList == 2        \* longest fields / conditions / orderings list
MaxLimit == 11      \* largest integer limit
MaxNameLen == 4     \* longest resource name of a catalog
MaxItems == 2       \* most elements of a container, most fields of a message
MaxMask == 2        \* most paths of a field mask
MaxBatches == 2     \* most batches of a response stream
MaxRows == 2        \* most rows of a batch

(***************************************************************************)
(* Python values.                                                          *)
(***************************************************************************)
None == [t |-> "None"]
PyInt(n) == [t |-> "int", n |-> n]
PyStr(s) == [t |-> "str", s |-> s]
PyList(xs) == [t |-> "list", items |-> xs]

\* bool(v) for the argument types of search (None, int, str, list).
Truthy(v) ==
    CASE v.t = "None" -> FALSE
      [] v.t = "int"  -> v.n # 0
      [] v.t = "str"  -> Len(v.s) > 0
      [] v.t = "list" -> Len(v.items) > 0

Digits == <<"0", "1", "2", "3", "4", "5", "6", "7", "8", "9">>

RECURSIVE NatToStr(_)
NatToStr(n) ==
    IF n < 10 THEN <<Digits[n + 1]>>
    ELSE NatToStr(n \div 10) \o <<Digits[(n % 10) + 1]>>

\* str(n) of an int.
IntToStr(n) == IF n < 0 THEN <<"-">> \o NatToStr(0 - n) ELSE NatToStr(n)

\* f"{v}" of an int or a str.
Format(v) ==
    CASE v.t = "int" -> IntToStr(v.n)
      [] v.t = "str" -> v.s
      [] OTHER       -> <<"N", "o", "n", "e">>

\* sep.join(xs)
RECURSIVE Join(_, _)
Join(sep, xs) ==
    IF Len(xs) = 0 THEN <<>>
    ELSE IF Len(xs) = 1 THEN xs[1]
    ELSE xs[1] \o sep \o Join(sep, Tail(xs))

\* "".join(parts)
RECURSIVE Concat(_)
Concat(parts) ==
    IF Len(parts) = 0 THEN <<>> ELSE parts[1] \o Concat(Tail(parts))

\* The sequences over S of length at most n.
SeqsUpTo(S, n) == UNION {[1..k -> S] : k \in 0..n}

(***************************************************************************)
(* Wire values and the values format_output_value returns.                 *)
(*                                                                         *)
(* A value carries the classes isinstance() finds it to be (a proto.Enum   *)
(* is an int as well), its text (an enum's name, a str's content), its     *)
(* number, its fields (a message, a dict), its elements and whether        *)
(* iter() accepts it.                                                      *)
(***************************************************************************)
Val(types, name, number, fields, items, iterable) ==
    [types |-> types, name |-> name, number |-> number, fields |-> fields,
     items |-> items, iterable |-> iterable]

WireStr(s) == Val({"str"}, s, 0, <<>>, <<>>, TRUE)
WireInt(n) == Val({"int"}, "", n, <<>>, <<>>, FALSE)
WireNone == Val({"NoneType"}, "", 0, <<>>, <<>>, FALSE)
WireEnum(name, n) == Val({"Enum", "int"}, name, n, <<>>, <<>>, FALSE)
WireOpaque == Val({"object"}, "opaque", 0, <<>>, <<>>, FALSE)
WireRepeated(items) == Val({"Repeated"}, "", 0, <<>>, items, TRUE)
FieldValues(fields) == [i \in 1..Len(fields) |-> fields[i].value]
WireMessage(fields) == Val({"Message"}, "", 0, fields, <<>>, FALSE)
WireIterableMessage(fields) == Val({"Message"}, "", 0, fields, FieldValues(fields), TRUE)
WireRawMessage(fields) == Val({"RawMessage"}, "", 0, fields, <<>>, FALSE)
PyDictValue(fields) == Val({"dict"}, "", 0, fields, <<>>, TRUE)
PyListValue(items) == Val({"list"}, "", 0, <<>>, items, TRUE)

(***************************************************************************)
(* The variables of the operations that are not running.                   *)
(***************************************************************************)
NoRequest == [customer_id |-> <<>>, fields |-> <<>>, resource |-> <<>>,
              conditions |-> None, orderings |-> None, limit |-> None]
NoFile == [kind |-> "missing"]
NoValue == WireNone

SearchIdle ==
    /\ request = NoRequest
    /\ query = <<>>
    /\ submitted = <<>>
    /\ streamed = <<>>
    /\ final_output = <<>>
    /\ failure = "None"
CatalogIdle ==
    /\ catalog_file = NoFile
    /\ resource = <<>>
    /\ resources = <<>>
    /\ logged = FALSE
ValueIdle == value = NoValue /\ row = NoValue /\ attributes = <<>>

IsInstance(v, classes) == v.types \cap classes # {}
ScalarClasses == {"str", "bytes", "int", "float", "bool", "NoneType"}
MessageClasses == {"Message", "RawMessage"}

\* What the protobuf conversions make of one field value: a message becomes a
\* dict, a repeated field a list, an enum its number (int_enums) or its name.
RECURSIVE pb_to_dict(_, _)
pb_to_dict(v, int_enums) ==
    IF IsInstance(v, MessageClasses)
    THEN PyDictValue([i \in 1..Len(v.fields) |->
             [name |-> v.fields[i].name, value |-> pb_to_dict(v.fields[i].value, int_enums)]])
    ELSE IF IsInstance(v, {"Enum"})
    THEN (IF int_enums THEN WireInt(v.number) ELSE WireStr(v.name))
    ELSE IF IsInstance(v, {"Repeated"})
    THEN PyListValue([i \in 1..Len(v.items) |-> pb_to_dict(v.items[i], int_enums)])
    ELSE v

\* proto.Message.to_dict(value): use_integers_for_enums is left at its
\* default, True.
to_dict(v) == pb_to_dict(v, TRUE)

\* MessageToDict(value, preserving_proto_field_name=True):
\* use_integers_for_enums is left at its default, False.
MessageToDict(v) == pb_to_dict(v, FALSE)

\* Faulty variant, for sensitivity: "except TypeError: return []".
on_type_error_empty_list(v) == PyListValue(<<>>)

\* except TypeError: return value
on_type_error(v) == v

\* Faulty variant, for sensitivity: the scalar test moved to the front of the chain.
dispatch_scalar_first(v) ==
    IF IsInstance(v, ScalarClasses) THEN "scalar"
    ELSE IF IsInstance(v, {"Enum"}) THEN "enum"
    ELSE IF IsInstance(v, {"Message"}) THEN "message"
    ELSE IF IsInstance(v, {"RawMessage"}) THEN "raw"
    ELSE "iterate"

\* The isinstance() chain of format_output_value, in its order.
dispatch(v) ==
    IF IsInstance(v, {"Enum"}) THEN "enum"
    ELSE IF IsInstance(v, {"Message"}) THEN "message"
    ELSE IF IsInstance(v, {"RawMessage"}) THEN "raw"
    ELSE IF IsInstance(v, ScalarClasses) THEN "scalar"
    ELSE "iterate"

RECURSIVE format_output_value(_)
format_output_value(v) ==
    CASE dispatch(v) = "enum"    -> WireStr(v.name)
      [] dispatch(v) = "message" -> to_dict(v)
      [] dispatch(v) = "raw"     -> MessageToDict(v)
      [] dispatch(v) = "scalar"  -> v
      [] OTHER ->
            IF v.iterable
            THEN PyListValue([i \in 1..Len(v.items) |-> format_output_value(v.items[i])])
            ELSE on_type_error(v)

(***************************************************************************)
(* format_output_row.                                                      *)
(***************************************************************************)
\* attr.split(".")
RECURSIVE Split(_)
Split(s) ==
    IF \A i \in 1..Len(s) : s[i] # "."
    THEN <<s>>
    ELSE LET dot == CHOOSE i \in 1..Len(s) : s[i] = "." /\ \A j \in 1..(i - 1) : s[j] # "."
         IN  <<SubSeq(s, 1, dot - 1)>> \o Split(SubSeq(s, dot + 1, Len(s)))

HasAttr(obj, seg) ==
    /\ IsInstance(obj, MessageClasses)
    /\ \E i \in 1..Len(obj.fields) : obj.fields[i].name = seg

GetAttr(obj, seg) ==
    obj.fields[CHOOSE i \in 1..Len(obj.fields) : obj.fields[i].name = seg].value

\* get_nested_attr(row, attr), called without a default: getattr() along the
\* segments of the path, AttributeError at the first one that is absent.
RECURSIVE walk(_, _)
walk(obj, segs) ==
    IF Len(segs) = 0 THEN [exc |-> "None", value |-> obj]
    ELSE IF HasAttr(obj, segs[1]) THEN walk(GetAttr(obj, segs[1]), Tail(segs))
    ELSE [exc |-> "AttributeError", value |-> WireNone]

get_nested_attr(obj, attr) == walk(obj, Split(attr))

\* Faulty variant, for sensitivity: the attribute stored as it is, format_output_value forgotten.
row_value_raw(obj, attr) == get_nested_attr(obj, attr).value

row_value(obj, attr) == format_output_value(get_nested_attr(obj, attr).value)

\* The items of {attr: ... for attr in attributes}: a key keeps the place of
\* its first occurrence.
RECURSIVE row_items(_, _, _)
row_items(obj, attrs, seen) ==
    IF Len(attrs) = 0 THEN <<>>
    ELSE (IF attrs[1] \in seen THEN <<>>
          ELSE <<[name |-> attrs[1], value |-> row_value(obj, attrs[1])]>>)
         \o row_items(obj, Tail(attrs), seen \cup {attrs[1]})

format_output_row(obj, attrs) ==
    IF \E i \in 1..Len(attrs) : get_nested_attr(obj, attrs[i]).exc # "None"
    THEN [raised |-> "AttributeError", value |-> None]
    ELSE [raised |-> "None", value |-> PyDictValue(row_items(obj, attrs, {}))]

(***************************************************************************)
(* The wire values, rows and field masks the normaliser is applied to.     *)
(***************************************************************************)
FieldName(i) == <<"f", Digits[i + 1]>>
Named(vs) == [i \in 1..Len(vs) |-> [name |-> FieldName(i), value |-> vs[i]]]

FieldAtoms == {WireEnum("ENABLED", 2), WireStr("Summer Sale"), WireInt(7)}
Atoms == FieldAtoms \cup {WireOpaque}

Repeateds(elems) == {WireRepeated(xs) : xs \in elems}
ProtoMessages(fields) ==
    {WireMessage(Named(xs)) : xs \in fields}
    \cup {WireIterableMessage(Named(xs)) : xs \in fields}
RawMessages(fields) == {WireRawMessage(Named(xs)) : xs \in fields}

\* Containers of atoms. A repeated field of a message holds field values.
FieldRepeated == Repeateds(SeqsUpTo(FieldAtoms, MaxItems))
FlatProto == ProtoMessages(SeqsUpTo(FieldAtoms, MaxItems))
FlatRaw == RawMessages(SeqsUpTo(FieldAtoms, MaxItems))
Flat == Repeateds(SeqsUpTo(Atoms, MaxItems)) \cup FlatProto \cup FlatRaw

\* The sequences of at most MaxItems elements, one of them from inner and the
\* others from outer.
OneAmong(inner, outer) ==
    {[p[1] EXCEPT ![p[2]] = v] :
        p \in {q \in SeqsUpTo(outer, MaxItems) \X (1..MaxItems) : q[2] <= Len(q[1])},
        v \in inner}

\* Containers that hold one container of atoms: a message holds repeated
\* fields and messages of its own kind.
Nested ==
    Repeateds(OneAmong(Flat, Atoms))
    \cup ProtoMessages(OneAmong(FieldRepeated \cup FlatProto, FieldAtoms))
    \cup RawMessages(OneAmong(FieldRepeated \cup FlatRaw, FieldAtoms))

WireValues == Atoms \cup {WireNone} \cup Flat \cup Nested

RowFields ==
    {WireEnum("ENABLED", 2), WireStr("Summer Sale"), WireOpaque,
     WireMessage(Named(<<WireStr("Summer Sale")>>)),
     WireMessage(Named(<<WireEnum("PAUSED", 3), WireRepeated(<<WireInt(7)>>)>>))}
Rows == {WireMessage(Named(xs)) : xs \in SeqsUpTo(RowFields, MaxItems)}
Paths ==
    {FieldName(1), FieldName(2), FieldName(2) \o <<".">> \o FieldName(1),
     FieldName(2) \o <<".">> \o FieldName(2)}
Masks == SeqsUpTo(Paths, MaxMask)

InitValue ==
    /\ \/ pc = "value" /\ value \in WireValues /\ row = NoValue /\ attributes = <<>>
       \/ pc = "row" /\ value = NoValue /\ row \in Rows /\ attributes \in Masks
    /\ result = None
    /\ raised = "None"
    /\ SearchIdle
    /\ CatalogIdle

Normalize ==
    /\ pc = "value"
    /\ result' = format_output_value(value)
    /\ pc' = "normalized"
    /\ UNCHANGED <<valueVars, raised, searchVars, catalogVars>>

Project ==
    /\ pc = "row"
    /\ result' = format_output_row(row, attributes).value
    /\ raised' = format_output_row(row, attributes).raised
    /\ pc' = "projected"
    /\ UNCHANGED <<valueVars, searchVars, catalogVars>>

NextValue == Normalize \/ Project

SpecValue == InitValue /\ [][NextValue]_vars

(***************************************************************************)
(* search: the query text.                                                 *)
(***************************************************************************)
SELECT_ == <<"S", "E", "L", "E", "C", "T", " ">>
FROM_ == <<" ", "F", "R", "O", "M", " ">>
WHERE_ == <<" ", "W", "H", "E", "R", "E", " ">>
AND_ == <<" ", "A", "N", "D", " ">>
ORDER_BY_ == <<" ", "O", "R", "D", "E", "R", " ", "B", "Y", " ">>
LIMIT_ == <<" ", "L", "I", "M", "I", "T", " ">>
COMMA == <<",">>

\* Faulty variant, for sensitivity: the fields joined by ", ".
select_clause_spaced_commas(fields, res) ==
    SELECT_ \o Join(<<",", " ">>, fields) \o FROM_ \o res

select_clause(fields, res) ==
    SELECT_ \o Join(COMMA, fields) \o FROM_ \o res

where_clause(conditions) == WHERE_ \o Join(AND_, conditions.items)

order_clause(orderings) == ORDER_BY_ \o Join(COMMA, orderings.items)

\* Faulty variant, for sensitivity: "if limit is not None".
limit_present_not_none(limit) == limit # None

limit_present(limit) == Truthy(limit)

limit_clause(limit) == LIMIT_ \o Format(limit)

\* Faulty variant, for sensitivity: the ORDER BY clause appended before the WHERE clause.
query_parts_order_first(req) ==
    <<select_clause(req.fields, req.resource)>>
    \o (IF Truthy(req.orderings) THEN <<order_clause(req.orderings)>> ELSE <<>>)
    \o (IF Truthy(req.conditions) THEN <<where_clause(req.conditions)>> ELSE <<>>)
    \o (IF limit_present(req.limit) THEN <<limit_clause(req.limit)>> ELSE <<>>)

query_parts(req) ==
    <<select_clause(req.fields, req.resource)>>
    \o (IF Truthy(req.conditions) THEN <<where_clause(req.conditions)>> ELSE <<>>)
    \o (IF Truthy(req.orderings) THEN <<order_clause(req.orderings)>> ELSE <<>>)
    \o (IF limit_present(req.limit) THEN <<limit_clause(req.limit)>> ELSE <<>>)

build_query(req) == Concat(query_parts(req))

(***************************************************************************)
(* The requests the query builder is applied to.                           *)
(***************************************************************************)
FieldPool == {<<"a">>, <<"b", ".", "c">>}
ResourcePool == {<<"r">>, <<"a", "d">>}
ConditionPool == {<<"x", "=", "1">>, <<"y", "=", "2">>}
OrderingPool == {<<"a">>, <<"b", " ", "D", "E", "S", "C">>}
LimitStrings == {<<>>, <<"0">>, <<"0", "5">>, <<"1", "0">>}

OptList(S) == {None} \cup {PyList(xs) : xs \in SeqsUpTo(S, MaxList)}
Limits ==
    {None} \cup {PyInt(n) : n \in (0 - 1)..MaxLimit}
           \cup {PyStr(s) : s \in LimitStrings}

Requests ==
    [customer_id : {<<"1">>},
     fields : SeqsUpTo(FieldPool, MaxList),
     resource : ResourcePool,
     conditions : OptList(ConditionPool),
     orderings : OptList(OrderingPool),
     limit : Limits]

InitQuery ==
    /\ pc = "request"
    /\ request \in Requests
    /\ query = <<>>
    /\ submitted = <<>>
    /\ streamed = <<>>
    /\ final_output = <<>>
    /\ failure = "None"
    /\ result = None
    /\ raised = "None"
    /\ CatalogIdle
    /\ ValueIdle

BuildQuery ==
    /\ pc = "request"
    /\ query' = build_query(request)
    /\ pc' = "built"
    /\ UNCHANGED <<request, submitted, streamed, final_output, failure, result, raised,
                   catalogVars, valueVars>>

NextQuery == BuildQuery

SpecQuery == InitQuery /\ [][NextQuery]_vars

(***************************************************************************)
(* search: the streamed execution.                                         *)
(***************************************************************************)
\* The rows of one batch, each through format_output_row with the field
\* mask of the batch.
project_batch(batch) ==
    [j \in 1..Len(batch.results) |->
        format_output_row(batch.results[j], batch.field_mask.paths)]

\* Faulty variant, for sensitivity: the rows of the batch put in front of those collected before.
append_rows_front(output, rows) == [j \in 1..Len(rows) |-> rows[j].value] \o output

\* final_output after the rows of one more batch: final_output.append(...)
append_rows(output, rows) == output \o [j \in 1..Len(rows) |-> rows[j].value]

\* What the transport can raise.
TransportErrors == {"GoogleAdsException", "ServiceUnavailable"}

\* The rows of a response and the field masks that go with them: a mask names
\* fields of the row type.
SearchRows ==
    {WireMessage(Named(<<WireEnum("ENABLED", 2), WireStr("Summer Sale")>>)),
     WireMessage(Named(<<WireEnum("PAUSED", 3), WireStr("Winter Sale")>>))}
SearchMasks == {<<FieldName(1)>>, <<FieldName(2), FieldName(1)>>}
Batches ==
    [results : SeqsUpTo(SearchRows, MaxRows), field_mask : [paths : SearchMasks]]

SearchRequests ==
    {[customer_id |-> <<"1">>, fields |-> <<<<"a">>>>, resource |-> <<"r">>,
      conditions |-> None, orderings |-> None, limit |-> None],
     [customer_id |-> <<"2">>, fields |-> <<<<"a">>, <<"b", ".", "c">>>>,
      resource |-> <<"a", "d">>, conditions |-> PyList(<<<<"x", "=", "1">>>>),
      orderings |-> PyList(<<<<"a">>>>), limit |-> PyInt(5)]}

InitSearch ==
    /\ pc = "request"
    /\ request \in SearchRequests
    /\ query = <<>>
    /\ submitted = <<>>
    /\ streamed = <<>>
    /\ final_output = <<>>
    /\ failure = "None"
    /\ result = None
    /\ raised = "None"
    /\ CatalogIdle
    /\ ValueIdle

\* search builds the query and calls search_stream, which returns the
\* stream.
Submit ==
    /\ pc = "request"
    /\ query' = build_query(request)
    /\ submitted' = Append(submitted, [customer_id |-> request.customer_id,
                                       query |-> build_query(request)])
    /\ pc' = "streaming"
    /\ UNCHANGED <<request, streamed, final_output, failure, result, raised,
                   catalogVars, valueVars>>

\* search builds the query and calls search_stream, which raises.
SubmitFails(e) ==
    /\ pc = "request"
    /\ query' = build_query(request)
    /\ submitted' = Append(submitted, [customer_id |-> request.customer_id,
                                       query |-> build_query(request)])
    /\ failure' = e
    /\ raised' = e
    /\ pc' = "raised"
    /\ UNCHANGED <<request, streamed, final_output, result, catalogVars, valueVars>>

\* The stream yields one more batch; search projects its rows.
PullBatch(batch) ==
    /\ pc = "streaming"
    /\ Len(streamed) < MaxBatches
    /\ streamed' = Append(streamed, batch)
    /\ LET rows == project_batch(batch)
       IN  IF \E j \in 1..Len(rows) : rows[j].raised # "None"
           THEN /\ raised' = "AttributeError"
                /\ pc' = "raised"
                /\ UNCHANGED final_output
           ELSE /\ final_output' = append_rows(final_output, rows)
                /\ UNCHANGED <<pc, raised>>
    /\ UNCHANGED <<request, query, submitted, failure, result, catalogVars, valueVars>>

\* The stream is exhausted; search returns final_output.
StreamEnds ==
    /\ pc = "streaming"
    /\ result' = final_output
    /\ pc' = "returned"
    /\ UNCHANGED <<searchVars, raised, catalogVars, valueVars>>

\* The stream raises while search waits for the next batch.
StreamFails(e) ==
    /\ pc = "streaming"
    /\ failure' = e
    /\ raised' = e
    /\ pc' = "raised"
    /\ UNCHANGED <<request, query, submitted, streamed, final_output, result,
                   catalogVars, valueVars>>

NextSearch ==
    \/ Submit
    \/ \E e \in TransportErrors : SubmitFails(e)
    \/ \E batch \in Batches : PullBatch(batch)
    \/ StreamEnds
    \/ \E e \in TransportErrors : StreamFails(e)

SpecSearch == InitSearch /\ [][NextSearch]_vars

(***************************************************************************)
(* The resource catalog: _load_resources and get_resource_fields.          *)
(***************************************************************************)
MaxCandidates == 10

\* sub in s, for two str.
RECURSIVE StrIn(_, _)
StrIn(sub, s) ==
    IF Len(sub) > Len(s) THEN FALSE
    ELSE IF SubSeq(s, 1, Len(sub)) = sub THEN TRUE
    ELSE IF Len(s) = 0 THEN FALSE
    ELSE StrIn(sub, Tail(s))

\* repr(s) of a str without quotes or escapes in it.
StrRepr(s) == <<"'">> \o s \o <<"'">>

RECURSIVE MapRepr(_)
MapRepr(xs) == IF Len(xs) = 0 THEN <<>> ELSE <<StrRepr(xs[1])>> \o MapRepr(Tail(xs))

\* f"{names}" of a list of str.
ListRepr(names) == <<"[">> \o Join(<<",", " ">>, MapRepr(names)) \o <<"]">>

NOT_FOUND_HEAD ==
    <<"R", "e", "s", "o", "u", "r", "c", "e", " ", "'">>
DID_YOU_MEAN ==
    <<"'", " ", "n", "o", "t", " ", "f", "o", "u", "n", "d", ".", " ", "D",
      "i", "d", " ", "y", "o", "u", " ", "m", "e", "a", "n", " ", "o", "n",
      "e", " ", "o", "f", ":", " ">>
QUESTION_MARK ==
    <<"?">>
USE_DESCRIPTION ==
    <<"'", " ", "n", "o", "t", " ", "f", "o", "u", "n", "d", ".", " ", "U",
      "s", "e", " ", "t", "h", "e", " ", "s", "e", "a", "r", "c", "h", " ",
      "t", "o", "o", "l", " ", "d", "e", "s", "c", "r", "i", "p", "t", "i",
      "o", "n", " ", "t", "o", " ", "s", "e", "e", " ", "a", "v", "a", "i",
      "l", "a", "b", "l", "e", " ", "r", "e", "s", "o", "u", "r", "c", "e",
      " ", "n", "a", "m", "e", "s", ".">>

\* What open() and json.load() do with the catalog file: the exception they
\* raise, or the parsed JSON.
read_catalog(file) ==
    CASE file.kind = "missing"    -> [exc |-> "FileNotFoundError", value |-> <<>>]
      [] file.kind = "unreadable" -> [exc |-> "PermissionError", value |-> <<>>]
      [] file.kind = "bad_bytes"  -> [exc |-> "UnicodeDecodeError", value |-> <<>>]
      [] file.kind = "bad_json"   -> [exc |-> "JSONDecodeError", value |-> <<>>]
      [] file.kind = "json"       -> [exc |-> "None", value |-> file.value]

\* The exceptions the except clause of _load_resources names.
load_catches(exc) == exc \in {"FileNotFoundError", "JSONDecodeError"}

\* _load_resources(): the exception let through, the list returned, and
\* whether logger.error was called.
_load_resources(file) ==
    LET r == read_catalog(file)
    IN  IF r.exc = "None" THEN [raised |-> "None", value |-> r.value, logged |-> FALSE]
        ELSE IF load_catches(r.exc) THEN [raised |-> "None", value |-> <<>>, logged |-> TRUE]
        ELSE [raised |-> r.exc, value |-> <<>>, logged |-> FALSE]

\* for r in resources: if r["resource"] == resource: return r
RECURSIVE find_exact(_, _)
find_exact(rs, res) ==
    IF Len(rs) = 0 THEN None
    ELSE IF rs[1].resource = res THEN [t |-> "entry", entry |-> rs[1]]
    ELSE find_exact(Tail(rs), res)

\* [r for r in resources if resource in r["resource"]]
RECURSIVE find_matches(_, _)
find_matches(rs, res) ==
    IF Len(rs) = 0 THEN <<>>
    ELSE (IF StrIn(res, rs[1].resource) THEN <<rs[1]>> ELSE <<>>)
         \o find_matches(Tail(rs), res)

\* xs[:n]
Slice(xs, n) == SubSeq(xs, 1, IF Len(xs) < n THEN Len(xs) ELSE n)

\* Faulty variant, for sensitivity: every match named, the slice forgotten.
candidate_names_untruncated(matches) == [i \in 1..Len(matches) |-> matches[i].resource]

\* [r['resource'] for r in matches[:10]]
candidate_names(matches) ==
    LET shown == Slice(matches, MaxCandidates)
    IN  [i \in 1..Len(shown) |-> shown[i].resource]

did_you_mean(res, matches) ==
    [error |-> NOT_FOUND_HEAD \o res \o DID_YOU_MEAN
               \o ListRepr(candidate_names(matches)) \o QUESTION_MARK]

not_found(res) == [error |-> NOT_FOUND_HEAD \o res \o USE_DESCRIPTION]

\* The value get_resource_fields returns once the catalog is loaded.
lookup(rs, res) ==
    LET exact == find_exact(rs, res)
        matches == find_matches(rs, res)
    IN  IF exact # None THEN exact.entry
        ELSE IF Len(matches) > 0 THEN did_you_mean(res, matches)
        ELSE not_found(res)

(***************************************************************************)
(* The catalogs and the lookups the tool is called with.                   *)
(***************************************************************************)
\* Every name of length n over {a, b}, in a fixed order.
RECURSIVE Level(_)
Level(n) ==
    IF n = 0 THEN <<<<>>>>
    ELSE LET prev == Level(n - 1)
         IN  [i \in 1..(2 * Len(prev)) |->
                 IF i <= Len(prev) THEN prev[i] \o <<"b">>
                 ELSE prev[i - Len(prev)] \o <<"a">>]

\* The names of length MaxNameLen down to 1, longest first.
RECURSIVE NamesDownFrom(_)
NamesDownFrom(n) == IF n = 0 THEN <<>> ELSE Level(n) \o NamesDownFrom(n - 1)

Entry(name) == [resource |-> name, selectable |-> <<name \o <<".", "i", "d">>>>]

MasterCatalog ==
    LET names == NamesDownFrom(MaxNameLen)
    IN  [i \in 1..Len(names) |-> Entry(names[i])]

\* The catalogs: every run of consecutive entries of the master catalog.
Catalogs ==
    {SubSeq(MasterCatalog, i, j) : i \in 1..(Len(MasterCatalog) + 1), j \in 0..Len(MasterCatalog)}

CatalogFiles ==
    {[kind |-> k] : k \in {"missing", "unreadable", "bad_bytes", "bad_json"}}
    \cup {[kind |-> "json", value |-> c] : c \in Catalogs}

ResourceArgs ==
    {<<>>, <<"a">>, <<"b">>, <<"a", "b">>, <<"b", "a", "b">>, <<"c">>, <<"a", "c">>}

InitCatalog ==
    /\ pc = "serving"
    /\ catalog_file \in CatalogFiles
    /\ resource = <<>>
    /\ resources = <<>>
    /\ logged = FALSE
    /\ result = None
    /\ raised = "None"
    /\ SearchIdle
    /\ ValueIdle

\* One call of the get_resource_fields tool.
get_resource_fields(res) ==
    LET loaded == _load_resources(catalog_file)
    IN  /\ pc = "serving"
        /\ resource' = res
        /\ resources' = loaded.value
        /\ logged' = loaded.logged
        /\ raised' = loaded.raised
        /\ result' = IF loaded.raised = "None" THEN lookup(loaded.value, res) ELSE None
        /\ pc' = "served"
        /\ UNCHANGED <<catalog_file, searchVars, valueVars>>

\* The tool host takes the next call.
NextCall ==
    /\ pc = "served"
    /\ pc' = "serving"
    /\ UNCHANGED <<catalogVars, result, raised, searchVars, valueVars>>

NextCatalog ==
    \/ \E res \in ResourceArgs : get_resource_fields(res)
    \/ NextCall

SpecCatalog == InitCatalog /\ [][NextCatalog]_vars

(***************************************************************************)
(* Text predicates used to state the properties.                           *)
(***************************************************************************)
StartsWith(s, p) == Len(p) <= Len(s) /\ SubSeq(s, 1, Len(p)) = p
EndsWith(s, p) == Len(p) <= Len(s) /\ SubSeq(s, Len(s) - Len(p) + 1, Len(s)) = p
After(s, p) == SubSeq(s, Len(p) + 1, Len(s))

\* xs[1] sep xs[2] sep ... xs[n], built from the right.
RECURSIVE Interleave(_, _)
Interleave(xs, sep) ==
    IF Len(xs) = 0 THEN <<>>
    ELSE IF Len(xs) = 1 THEN xs[1]
    ELSE Interleave(SubSeq(xs, 1, Len(xs) - 1), sep) \o sep \o xs[Len(xs)]

DigitValue(c) == CHOOSE d \in 0..9 : Digits[d + 1] = c
AllDigits(s) == Len(s) > 0 /\ \A i \in 1..Len(s) : \E d \in 0..9 : Digits[d + 1] = s[i]

\* The number a non-empty digit string denotes.
RECURSIVE ParseNat(_)
ParseNat(s) ==
    IF Len(s) = 1 THEN DigitValue(s[1])
    ELSE 10 * ParseNat(SubSeq(s, 1, Len(s) - 1)) + DigitValue(s[Len(s)])

NonEmptyList(v) == v.t = "list" /\ Len(v.items) > 0
Built == pc = "built"

\* The text the WHERE and ORDER BY inputs call for, stated from the inputs.
ExpectedWhere(req) ==
    IF NonEmptyList(req.conditions)
    THEN <<" ", "W", "H", "E", "R", "E", " ">>
         \o Interleave(req.conditions.items, <<" ", "A", "N", "D", " ">>)
    ELSE <<>>
ExpectedOrder(req) ==
    IF NonEmptyList(req.orderings)
    THEN <<" ", "O", "R", "D", "E", "R", " ", "B", "Y", " ">>
         \o Interleave(req.orderings.items, <<",">>)
    ELSE <<>>
ExpectedSelect(req, gap) ==
    <<"S", "E", "L", "E", "C", "T", " ">> \o Interleave(req.fields, <<",">>)
    \o gap \o <<"F", "R", "O", "M", " ">> \o req.resource

NonEmptyRequest(req) == Len(req.fields) > 0 /\ Len(req.resource) > 0

\* C1, as claimed: with non-empty fields and resource the query starts with
\* SELECT, one space, the fields joined by ",", TWO spaces, FROM, one space
\* and the resource.
C1_TwoSpacesBeforeFrom ==
    (Built /\ NonEmptyRequest(request))
        => StartsWith(query, ExpectedSelect(request, <<" ", " ">>))

\* C1, amended: with non-empty fields and resource the query starts with
\* SELECT, one space, the fields joined by "," with nothing added, ONE space,
\* FROM, one space and the resource.
C1_SelectFromPrefix ==
    (Built /\ NonEmptyRequest(request))
        => StartsWith(query, ExpectedSelect(request, <<" ">>))

C1_Witness ==
    /\ Built
    /\ request.fields = <<<<"a">>, <<"b", ".", "c">>>>
    /\ request.resource = <<"a", "d">>
    /\ StartsWith(query, <<"S", "E", "L", "E", "C", "T", " ", "a", ",", "b", ".", "c",
                           " ", "F", "R", "O", "M", " ", "a", "d">>)

\* C2: the query is the SELECT/FROM clause, then " WHERE " and the conditions
\* joined by " AND " iff conditions is non-empty, then " ORDER BY " and the
\* orderings joined by "," iff orderings is non-empty, then nothing or a
\* clause starting " LIMIT "; conditions and orderings appear verbatim, in
\* the caller's order.
C2_ClauseOrder ==
    Built =>
        LET head == ExpectedSelect(request, <<" ">>) \o ExpectedWhere(request)
                    \o ExpectedOrder(request)
        IN  /\ StartsWith(query, head)
            /\ \/ After(query, head) = <<>>
               \/ StartsWith(After(query, head), <<" ", "L", "I", "M", "I", "T", " ">>)
            /\ (request.conditions = PyList(<<<<"x", "=", "1">>, <<"y", "=", "2">>>>))
                  => StartsWith(After(query, ExpectedSelect(request, <<" ">>)),
                                <<" ", "W", "H", "E", "R", "E", " ", "x", "=", "1",
                                  " ", "A", "N", "D", " ", "y", "=", "2">>)

C2_Witness ==
    /\ Built
    /\ request.conditions = PyList(<<<<"x", "=", "1">>, <<"y", "=", "2">>>>)
    /\ request.orderings = PyList(<<<<"b", " ", "D", "E", "S", "C">>, <<"a">>>>)
    /\ request.limit = PyInt(5)
    /\ request.fields = <<<<"a">>>>
    /\ request.resource = <<"r">>
    /\ query = <<"S", "E", "L", "E", "C", "T", " ", "a", " ", "F", "R", "O", "M", " ", "r",
                 " ", "W", "H", "E", "R", "E", " ", "x", "=", "1",
                 " ", "A", "N", "D", " ", "y", "=", "2",
                 " ", "O", "R", "D", "E", "R", " ", "B", "Y", " ",
                 "b", " ", "D", "E", "S", "C", ",", "a",
                 " ", "L", "I", "M", "I", "T", " ", "5">>

\* The query without its LIMIT clause.
BeforeLimit(req) ==
    ExpectedSelect(req, <<" ">>) \o ExpectedWhere(req) \o ExpectedOrder(req)

NumericString(v) == v.t = "str" /\ AllDigits(v.s)
IsZero(v) == v = PyInt(0) \/ (NumericString(v) /\ ParseNat(v.s) = 0)
PositiveInt(v) == v.t = "int" /\ v.n > 0
PositiveString(v) == NumericString(v) /\ ParseNat(v.s) > 0

\* " LIMIT " followed by the decimal digits of n, no leading zero.
IsLimitOf(text, n) ==
    /\ StartsWith(text, <<" ", "L", "I", "M", "I", "T", " ">>)
    /\ LET d == After(text, <<" ", "L", "I", "M", "I", "T", " ">>)
       IN  AllDigits(d) /\ d[1] # "0" /\ ParseNat(d) = n

\* C3, as claimed: an absent limit and a limit of zero (the integer 0 or a
\* numeric string denoting zero) produce no LIMIT clause; a positive limit
\* produces " LIMIT n" as the last clause.
C3_ZeroIsNoLimit ==
    Built =>
        LET rest == After(query, BeforeLimit(request))
        IN  /\ (request.limit = None \/ IsZero(request.limit)) => rest = <<>>
            /\ PositiveInt(request.limit) => IsLimitOf(rest, request.limit.n)
            /\ PositiveString(request.limit)
                  => rest = <<" ", "L", "I", "M", "I", "T", " ">> \o request.limit.s

\* C3, amended: an absent limit and the integer 0 produce no LIMIT clause; a
\* positive integer n produces " LIMIT " and the decimal digits of n as the
\* last clause; a numeric string s produces " LIMIT " and s itself as the
\* last clause, also when s is "0".
C3_LimitIffTruthy ==
    Built =>
        LET rest == After(query, BeforeLimit(request))
        IN  /\ StartsWith(query, BeforeLimit(request))
            /\ (request.limit = None \/ request.limit = PyInt(0)) => rest = <<>>
            /\ PositiveInt(request.limit) => IsLimitOf(rest, request.limit.n)
            /\ NumericString(request.limit)
                  => rest = <<" ", "L", "I", "M", "I", "T", " ">> \o request.limit.s

C3_Witness ==
    /\ Built
    /\ request.limit = PyStr(<<"1", "0">>)
    /\ NonEmptyList(request.orderings)
    /\ EndsWith(query, <<"a", " ", "L", "I", "M", "I", "T", " ", "1", "0">>)

(***************************************************************************)
(* Catalog lookup.                                                         *)
(***************************************************************************)
Served == pc = "served"
Contains(s, sub) ==
    \E o \in 1..(Len(s) - Len(sub) + 1) : SubSeq(s, o, o + Len(sub) - 1) = sub
Smallest(S) == CHOOSE i \in S : \A j \in S : i <= j
\* The k-th smallest member of a set of numbers.
Kth(S, k) == CHOOSE i \in S : Cardinality({j \in S : j <= i}) = k
AtMost(n, m) == IF n < m THEN n ELSE m

ExactAt(cat, q) == {i \in DOMAIN cat : cat[i].resource = q}
PartialAt(cat, q) == {i \in DOMAIN cat : Contains(cat[i].resource, q)}

\* The first ten partial matches, quoted, in catalog order.
QuotedCandidates(cat, q) ==
    [k \in 1..AtMost(Cardinality(PartialAt(cat, q)), 10) |->
        <<"'">> \o cat[Kth(PartialAt(cat, q), k)].resource \o <<"'">>]

\* C4: over a loaded catalog, get_resource_fields raises nothing and returns
\* the entry whose resource name equals the query if there is one; otherwise,
\* if some entry's name contains the query, the "did you mean" error naming
\* the first ten such entries in catalog order; otherwise the generic
\* "not found" error.
C4_ExactPartialGeneric ==
    (Served /\ catalog_file.kind = "json") =>
        LET cat == catalog_file.value
            q == resource
        IN  /\ raised = "None"
            /\ IF ExactAt(cat, q) # {} THEN result = cat[Smallest(ExactAt(cat, q))]
               ELSE IF PartialAt(cat, q) # {}
               THEN result = [error |-> NOT_FOUND_HEAD \o q \o DID_YOU_MEAN \o <<"[">>
                                        \o Interleave(QuotedCandidates(cat, q), <<",", " ">>)
                                        \o <<"]", "?">>]
               ELSE result = [error |-> NOT_FOUND_HEAD \o q \o USE_DESCRIPTION]

C4_Witness ==
    /\ Served
    /\ catalog_file.kind = "json"
    /\ resource = <<"a", "b">>
    /\ ExactAt(catalog_file.value, resource) = {}
    /\ Cardinality(PartialAt(catalog_file.value, resource)) > 10
    /\ DOMAIN result = {"error"}
    /\ StartsWith(result.error, NOT_FOUND_HEAD \o resource \o DID_YOU_MEAN)

\* The catalog file is missing, or its content is malformed: bytes that are
\* no text, or text that is no JSON.
MissingOrMalformed == catalog_file.kind \in {"missing", "bad_bytes", "bad_json"}

\* C5: when the catalog file is missing or its content is malformed, the load
\* raises nothing, logs the failure and returns an empty sequence, and
\* get_resource_fields returns the generic "not found" error for every input.
C5_LoadNeverRaises ==
    (Served /\ MissingOrMalformed) =>
        /\ raised = "None"
        /\ logged
        /\ resources = <<>>
        /\ result = [error |-> NOT_FOUND_HEAD \o resource \o USE_DESCRIPTION]

(***************************************************************************)
(* Output normalisation.                                                   *)
(***************************************************************************)
Normalized == pc = "normalized"
Projected == pc = "projected"
IsEnum(v) == "Enum" \in v.types
IsProtoMessage(v) == "Message" \in v.types
IsRaw(v) == "RawMessage" \in v.types
IsScalar(v) == v.types \cap {"str", "bytes", "int", "float", "bool", "NoneType"} # {}
Unrecognized(v) == ~IsEnum(v) /\ ~IsProtoMessage(v) /\ ~IsRaw(v) /\ ~IsScalar(v)
IsDict(v) == v.types = {"dict"}
IsList(v) == v.types = {"list"}

\* The object a path leads to from obj, or Absent. segs are the segments of
\* the path still to follow.
Absent == [absent |-> TRUE]
RECURSIVE Follow(_, _)
Follow(obj, segs) ==
    IF Len(segs) = 0 \/ obj = Absent THEN obj
    ELSE LET hits == IF "fields" \in DOMAIN obj /\ (IsProtoMessage(obj) \/ IsRaw(obj))
                     THEN {i \in 1..Len(obj.fields) : obj.fields[i].name = segs[1]}
                     ELSE {}
         IN  IF hits = {} THEN Absent
             ELSE Follow(obj.fields[CHOOSE i \in hits : TRUE].value, Tail(segs))
Resolve(obj, path) == Follow(obj, Split(path))

PathsOf(mask) == {mask[i] : i \in 1..Len(mask)}
KeysOf(d) == {d.fields[i].name : i \in 1..Len(d.fields)}
ValueAt(d, key) == d.fields[CHOOSE i \in 1..Len(d.fields) : d.fields[i].name = key].value

C7_DispatchOrder ==
    Normalized =>
        /\ IsEnum(value) => (result = WireStr(value.name) /\ result # WireInt(value.number))
        /\ (~IsEnum(value) /\ IsProtoMessage(value)) => (IsDict(result) /\ ~IsList(result))
        /\ (~IsEnum(value) /\ ~IsProtoMessage(value) /\ IsRaw(value)) => IsDict(result)
        /\ (~IsEnum(value) /\ ~IsProtoMessage(value) /\ ~IsRaw(value) /\ IsScalar(value))
              => result = value
        /\ (Unrecognized(value) /\ value.iterable) =>
              /\ IsList(result)
              /\ Len(result.items) = Len(value.items)
              /\ \A i \in 1..Len(value.items) :
                    LET e == value.items[i]
                        r == result.items[i]
                    IN  /\ r = format_output_value(e)
                        /\ IsEnum(e) => r = WireStr(e.name)
                        /\ (~IsEnum(e) /\ IsProtoMessage(e)) => IsDict(r)
                        /\ (~IsEnum(e) /\ "str" \in e.types) => r = e

C7_Witness ==
    /\ Normalized
    /\ value = WireRepeated(<<WireEnum("ENABLED", 2),
                              WireIterableMessage(Named(<<WireStr("Summer Sale")>>))>>)
    /\ result = PyListValue(<<WireStr("ENABLED"),
                              PyDictValue(Named(<<WireStr("Summer Sale")>>))>>)

\* C8: a structured message becomes a mapping whose keys are the message's
\* field names and whose values are normalised by the rules of
\* format_output_value: an enum-valued field appears as its name, a nested
\* message as a normalised mapping.
C8_MessageFieldsNormalized ==
    (Normalized /\ IsProtoMessage(value)) =>
        /\ IsDict(result)
        /\ Len(result.fields) = Len(value.fields)
        /\ \A i \in 1..Len(value.fields) :
              /\ result.fields[i].name = value.fields[i].name
              /\ result.fields[i].value = format_output_value(value.fields[i].value)
              /\ IsEnum(value.fields[i].value)
                    => result.fields[i].value = WireStr(value.fields[i].value.name)

\* C9: a value that is no enum, message, raw message or scalar and that
\* iter() refuses comes back unchanged and nothing is raised, at the top
\* level, as an element of a sequence and as an attribute of a projected row.
C9_UnrecognizedPassesThrough ==
    /\ Normalized =>
          /\ raised = "None"
          /\ (Unrecognized(value) /\ ~value.iterable) => result = value
          /\ (Unrecognized(value) /\ value.iterable) =>
                \A i \in 1..Len(value.items) :
                    (Unrecognized(value.items[i]) /\ ~value.items[i].iterable)
                        => (i <= Len(result.items) /\ result.items[i] = value.items[i])
    /\ Projected =>
          \A path \in PathsOf(attributes) :
              LET v == Resolve(row, path)
              IN  (v # Absent /\ raised = "None" /\ Unrecognized(v) /\ ~v.iterable)
                     => ValueAt(result, path) = v
    /\ Projected =>
          ((\A path \in PathsOf(attributes) : Resolve(row, path) # Absent)
              => raised = "None")

C9_Witness ==
    /\ Normalized
    /\ value = WireRepeated(<<WireOpaque, WireStr("Summer Sale")>>)
    /\ result = PyListValue(<<WireOpaque, WireStr("Summer Sale")>>)

(***************************************************************************)
(* Streamed execution.                                                     *)
(***************************************************************************)
\* The rows of the first k batches.
RECURSIVE RowsBefore(_, _)
RowsBefore(stream, k) ==
    IF k = 0 THEN 0 ELSE RowsBefore(stream, k - 1) + Len(stream[k].results)

\* C10: search submits the built query once, with the customer id; when the
\* stream ends it returns one projected row per streamed row, batches in
\* arrival order and rows in batch order, each projected with the field mask
\* of its own batch; when the transport raises, at submission or while
\* streaming, that exception reaches the caller, nothing is submitted again
\* and nothing is returned.
C10_StreamedInOrder ==
    /\ pc = "request" => submitted = <<>>
    /\ pc # "request" =>
          /\ submitted = <<[customer_id |-> request.customer_id, query |-> query]>>
          /\ StartsWith(query, BeforeLimit(request))
    /\ pc \in {"request", "streaming"} => (result = None /\ raised = "None")
    /\ pc = "returned" =>
          /\ raised = "None"
          /\ Len(result) = RowsBefore(streamed, Len(streamed))
          /\ \A k \in 1..Len(streamed) : \A j \in 1..Len(streamed[k].results) :
                LET out == result[RowsBefore(streamed, k - 1) + j]
                    mask == streamed[k].field_mask.paths
                    in_row == streamed[k].results[j]
                IN  /\ IsDict(out)
                    /\ [i \in 1..Len(out.fields) |-> out.fields[i].name] = mask
                    /\ \A path \in PathsOf(mask) :
                          ValueAt(out, path) = format_output_value(Resolve(in_row, path))
    /\ pc = "raised" =>
          /\ failure \in TransportErrors
          /\ raised = failure
          /\ result = None
          /\ Len(submitted) = 1

C10_Witness ==
    /\ pc = "returned"
    /\ Len(streamed) = 2
    /\ Len(streamed[1].results) = 2
    /\ streamed[1].results[1] # streamed[1].results[2]
    /\ streamed[1].field_mask # streamed[2].field_mask
    /\ Len(streamed[2].results) = 1
    /\ Len(result) = 3
    /\ result[3] = PyDictValue(<<[name |-> <<"f", "1">>, value |-> WireStr("PAUSED")]>>)
    /\ result[1] = PyDictValue(<<[name |-> <<"f", "2">>, value |-> WireStr("Summer Sale")],
                                 [name |-> <<"f", "1">>, value |-> WireStr("ENABLED")]>>)

\* A transport failure while streaming, after rows were collected.
C10_FailureWitness ==
    /\ pc = "raised"
    /\ Len(final_output) > 0
    /\ raised = "GoogleAdsException"

====
